---- MODULE Spec2Model ----
(***************************************************************************)
(* A model of larousse_scraper.py: the scraping pipeline scrape_larousse,  *)
(* its helpers, and the Tkinter driver start_scrape_thread / scrape_task.  *)
(*                                                                         *)
(* Text is modelled as a sequence of chunks.  A chunk is a run of          *)
(* characters that no operation of the program splits: the separators     *)
(* "/", ".", "?", "#" and "_" are chunks of their own, and so is the       *)
(* scheme-and-host prefix of an absolute URL.  A filesystem path is a      *)
(* sequence of segments, each segment a sequence of chunks.                *)
(***************************************************************************)
EXTENDS Naturals, Sequences, FiniteSets, TLC

(***************************************************************************)
(* Bounds of the model.                                                    *)
(***************************************************************************)
\* how many runs the user starts in one session, any input, any page
MaxRuns == 1
\* how many runs the user starts in one session of the driver's specification
MaxDriverRuns == 2
\* how many worker threads the model can hold at once
MaxThreads == 2

(***************************************************************************)
(* Program constants.                                                      *)
(***************************************************************************)
\* ROOT_DIR = pathlib.Path("Learning/French/Larousse")
ROOT_DIR == << <<"Learning">>, <<"French">>, <<"Larousse">> >>
\* BASE_URL = "https://www.larousse.fr"
BASE_URL == "https://www.larousse.fr"
\* the length ceiling of a derived file name in get_local_path
NameCeiling == 100

\* a second host, for assets served from elsewhere
CdnOrigin == "https://cdn.larousse.fr"
\* the start of a URL on which urlparse raises ValueError (an unclosed IPv6
\* bracket) and which requests refuses to fetch
MalformedOrigin == "http://[::1"
\* a file name of 101 characters
LongName == "aaaaaaaaaaaaaaaaaaaaaaaaaaaaaaaaaaaaaaaaaaaaaaaaaaaaaaaaaaaaaaaaaaaaaaaaaaaaaaaaaaaaaaaaaaaaaaaaaaaaa"
\* the word "cafe" written with an acute accent on the e (a non-ASCII chunk)
CafeAccent == "caf&eacute;"

(***************************************************************************)
(* Text helpers.                                                           *)
(***************************************************************************)
\* F applied to the value of v; v is evaluated once, however often F reads it
Bind(v, F(_)) == CHOOSE r \in {F(x) : x \in {v}} : TRUE

Last(s) == s[Len(s)]

Front(s) == SubSeq(s, 1, Len(s) - 1)

RECURSIVE StrLen(_)
\* len(str): the number of characters of a chunk sequence
StrLen(s) == IF s = <<>> THEN 0 ELSE Len(Head(s)) + StrLen(Tail(s))

\* str.startswith("http")
StartsWithHttp(s) == s # <<>> /\ Head(s) \in {BASE_URL, CdnOrigin, MalformedOrigin}

RECURSIVE SplitFrom(_, _, _, _)
\* the pieces of s between the occurrences of sep, after the pieces acc and
\* the piece cur that is being read
SplitFrom(s, sep, cur, acc) ==
    IF s = <<>> THEN Append(acc, cur)
    ELSE IF Head(s) = sep
         THEN SplitFrom(Tail(s), sep, <<>>, Append(acc, cur))
         ELSE SplitFrom(Tail(s), sep, Append(cur, Head(s)), acc)

\* str.split(sep): the pieces between the occurrences of the chunk sep
SplitOn(s, sep) == Bind(s, LAMBDA x : SplitFrom(x, sep, <<>>, <<>>))

RECURSIVE UpTo(_, _)
\* the prefix of s before the first chunk of stops
UpTo(s, stops) ==
    IF s = <<>> \/ Head(s) \in stops THEN <<>>
    ELSE <<Head(s)>> \o UpTo(Tail(s), stops)

\* urlparse(url).path: what follows scheme and host, up to the query or fragment
UrlPath(url) ==
    Bind(url, LAMBDA u :
        IF StartsWithHttp(u) THEN UpTo(Tail(u), {"?", "#"}) ELSE UpTo(u, {"?", "#"}))

\* pathlib's parts of a path string: empty and "." segments are dropped, ".." kept
PathParts(p) ==
    SelectSeq(SplitOn(p, "/"), LAMBDA seg : seg # <<>> /\ seg # <<".">>)

\* pathlib.Path(p).name
PathName(p) ==
    Bind(PathParts(p), LAMBDA parts : IF parts = <<>> THEN <<>> ELSE Last(parts))

RECURSIVE LastDot(_)
\* str.rfind("."), 1-based; 0 when there is none
LastDot(s) ==
    IF s = <<>> THEN 0
    ELSE IF Last(s) = "." THEN Len(s) ELSE LastDot(Front(s))

\* pathlib.Path(p).stem: the name without its last suffix; a dot that leads
\* or ends the name starts no suffix
PathStem(p) ==
    Bind(PathName(p), LAMBDA name :
    Bind(LastDot(name), LAMBDA i :
        IF 1 < i /\ i < Len(name) THEN SubSeq(name, 1, i - 1) ELSE name))

RECURSIVE AllDots(_)
AllDots(s) == s = <<>> \/ (Head(s) = "." /\ AllDots(Tail(s)))

\* os.path.splitext(name)[0]: the name without its extension; leading dots
\* start no extension
SplitextRoot(name) ==
    Bind(name, LAMBDA n :
    Bind(LastDot(n), LAMBDA i :
        IF i > 0 /\ ~AllDots(SubSeq(n, 1, i - 1)) THEN SubSeq(n, 1, i - 1) ELSE n))

\* unidecode of one chunk: ASCII passes through unchanged, accents are folded
UnidecodeChunk(c) == IF c = CafeAccent THEN "cafe" ELSE c

\* unidecode(text)
Unidecode(s) == Bind(s, LAMBDA x : [i \in 1..Len(x) |-> UnidecodeChunk(x[i])])

(***************************************************************************)
(* URL helpers (lines 39-50).                                              *)
(***************************************************************************)
\* absolute_url: an absolute URL is kept, anything else is joined to BASE_URL
\* (urljoin puts a "/" before a relative path)
absolute_url(path_or_url) ==
    Bind(path_or_url, LAMBDA u :
        IF StartsWithHttp(u) THEN u
        ELSE IF u # <<>> /\ Head(u) = "/"
             THEN <<BASE_URL>> \o u
             ELSE <<BASE_URL, "/">> \o u)

\* build_url: a URL is fetched verbatim, a word is put under the direction
build_url(word_or_url, direction) ==
    IF StartsWithHttp(word_or_url) THEN word_or_url
    ELSE <<BASE_URL, "/", "dictionnaires", "/", direction, "/">> \o word_or_url

(***************************************************************************)
(* Filesystem.  fs.dirs and fs.files hold normalised paths relative to the *)
(* working directory; <<>> is the working directory itself.                *)
(***************************************************************************)
DotDot == <<".", ".">>

RECURSIVE NormFrom(_, _)
\* the directory reached from acc by walking the segments segs
NormFrom(acc, segs) ==
    IF segs = <<>> THEN acc
    ELSE IF Head(segs) = DotDot
         THEN NormFrom(IF acc = <<>> THEN acc ELSE Front(acc), Tail(segs))
         ELSE NormFrom(Append(acc, Head(segs)), Tail(segs))

Norm(segs) == Bind(segs, LAMBDA x : NormFrom(<<>>, x))

\* pathlib's  base / text
PathJoin(base, text) == base \o PathParts(text)

\* every path the operating system resolves on the way to segs, segs excluded
Visited(segs) ==
    Bind(segs, LAMBDA x : {Norm(SubSeq(x, 1, k)) : k \in 0..(Len(x) - 1)})

\* Path.mkdir(parents=True, exist_ok=True): fails when a file is in the way
MkdirOk(files, segs) == (Visited(segs) \cup {Norm(segs)}) \cap files.files = {}

Mkdir(files, segs) ==
    IF MkdirOk(files, segs)
    THEN [files EXCEPT !.dirs = @ \cup Visited(segs) \cup {Norm(segs)}]
    ELSE files

\* Path.write_bytes / write_text: the directories on the way must exist and
\* the target must not be a directory
WriteOk(files, segs) ==
    /\ segs # <<>>
    /\ Visited(segs) \subseteq files.dirs
    /\ Norm(segs) \notin files.dirs

WriteFile(files, segs) == [files EXCEPT !.files = @ \cup {Norm(segs)}]

RECURSIVE CommonPrefixLen(_, _)
CommonPrefixLen(a, b) ==
    IF a = <<>> \/ b = <<>> \/ Head(a) # Head(b) THEN 0
    ELSE 1 + CommonPrefixLen(Tail(a), Tail(b))

\* os.path.relpath(path, start): both normalised, the common prefix dropped,
\* one ".." for every remaining segment of start
relpath(path, start) ==
    Bind(Norm(path), LAMBDA p :
    Bind(Norm(start), LAMBDA b :
    Bind(CommonPrefixLen(p, b), LAMBDA n :
        [i \in 1..(Len(b) - n) |-> DotDot] \o SubSeq(p, n + 1, Len(p)))))

(***************************************************************************)
(* ensure_paths (lines 20-33).                                             *)
(***************************************************************************)
word_dir_of(word) == PathJoin(ROOT_DIR, word)

AssetDir(word, kind) == Append(word_dir_of(word), <<kind>>)

\* the four directories in the order they are made
EnsureDirs(word) ==
    << word_dir_of(word), AssetDir(word, "audio"), AssetDir(word, "css"),
       AssetDir(word, "js") >>

RECURSIVE MkdirAll(_, _)
\* the mkdir calls one after the other; the first failure raises and the
\* directories made before it stay
MkdirAll(files, dirs) ==
    IF dirs = <<>> THEN [ok |-> TRUE, fs |-> files]
    ELSE Bind(Head(dirs), LAMBDA d :
            IF MkdirOk(files, d)
            THEN Bind(Mkdir(files, d), LAMBDA made : MkdirAll(made, Tail(dirs)))
            ELSE [ok |-> FALSE, fs |-> files])

ensure_paths(files, word) ==
    Bind(EnsureDirs(word), LAMBDA dirs : MkdirAll(files, dirs))

(***************************************************************************)
(* get_local_path (lines 65-85).                                           *)
(***************************************************************************)
\* ext_map.get(asset_dir.name, '.asset')
ExtOf(kind) ==
    CASE kind = "css"   -> <<".", "css">>
      [] kind = "js"    -> <<".", "js">>
      [] kind = "audio" -> <<".", "mp3">>
      [] OTHER          -> <<".", "asset">>

\* f"{prefix}_{idx}{ext}"
SynthName(prefix, idx, ext) == prefix \o <<"_", ToString(idx)>> \o ext

\* the name is synthesized when the URL gives none or one over the ceiling
NeedsSynth(parsed_name) == parsed_name = <<>> \/ StrLen(parsed_name) > NameCeiling

\* the file name get_local_path derives, before it is joined to asset_dir
LocalName(url, kind, prefix, idx) ==
    IF Head(url) = MalformedOrigin
    THEN SynthName(prefix, idx, <<".", "asset">>)
    ELSE Bind(Head(SplitOn(Head(SplitOn(PathName(UrlPath(url)), "?")), "#")),
              LAMBDA parsed :
         Bind(IF NeedsSynth(parsed)
              THEN SynthName(prefix, idx, ExtOf(kind)) ELSE parsed,
              LAMBDA named :
            IF kind = "audio" THEN SplitextRoot(named) \o <<".", "mp3">> ELSE named))

get_local_path(url, word, kind, prefix, idx) ==
    PathJoin(AssetDir(word, kind), LocalName(url, kind, prefix, idx))


(***************************************************************************)
(* What the user can type, and what the browser can render.                *)
(***************************************************************************)
InEmpty  == <<>>
InWord   == <<"chat">>
InAccent == <<CafeAccent>>
InSlash  == <<"chat", "/", "chien">>
InDots   == <<".", ".">>
InUrl    == <<BASE_URL, "/", "dictionnaires", "/", "francais-anglais", "/",
              "chien", "/", "12345">>
InUrlBare == <<BASE_URL>>

Inputs == {InEmpty, InWord, InAccent, InSlash, InDots, InUrl, InUrlBare}

\* the two radio buttons
Directions == {"francais-anglais", "anglais-francais"}

\* an element that refers to an asset: its source attribute (<<>> when the
\* attribute is missing or empty) and where it stands in the document
El(src, at) == [src |-> src, at |-> at]

\* a page as the browser serializes it.  title: the document has a <title>;
\* bilingue / content / article: which of the three selectors match;
\* "region" elements stand inside the content region, "head" and "body" ones
\* outside it; anchors and icons count the <a> and span.icon-speaker elements
\* of the region
PageEntry ==
    [ title |-> TRUE, bilingue |-> TRUE, content |-> FALSE, article |-> TRUE,
      links   |-> << El(<<"/", "css", "/", "style", ".", "css", "?", "v=1">>, "head"),
                     El(<<CdnOrigin, "/", "v2", "/", "style", ".", "css">>, "head") >>,
      scripts |-> << El(<<"/", "js", "/", "app", ".", "js">>, "body") >>,
      audios  |-> << El(<<"/", "tts", "/", "1fra">>, "region"),
                     El(<<"/", "tts", "/", "2fra">>, "region") >>,
      anchors |-> 2, icons |-> 3 ]

PageNoRegion ==
    [ title |-> TRUE, bilingue |-> FALSE, content |-> FALSE, article |-> FALSE,
      links   |-> << El(<<"/", "css", "/", "style", ".", "css">>, "head") >>,
      scripts |-> << El(<<"/", "js", "/", "app", ".", "js">>, "body") >>,
      audios  |-> << El(<<"/", "tts", "/", "1fra">>, "body") >>,
      anchors |-> 0, icons |-> 0 ]

PageNoTitle ==
    [ title |-> FALSE, bilingue |-> FALSE, content |-> FALSE, article |-> TRUE,
      links   |-> << El(<<"/", "css", "/", "style", ".", "css">>, "head") >>,
      scripts |-> << >>,
      audios  |-> << El(<<"/", "tts", "/", "1fra">>, "region") >>,
      anchors |-> 1, icons |-> 1 ]

PageOdd ==
    [ title |-> TRUE, bilingue |-> FALSE, content |-> TRUE, article |-> FALSE,
      links   |-> << El(<<>>, "head"),
                     El(<<"/", "css", "/", LongName>>, "region") >>,
      scripts |-> << El(<<>>, "head"),
                     El(<<MalformedOrigin, "/", "x", ".", "js">>, "region") >>,
      audios  |-> << El(<<"/", "a", "/", "x", ".", "ogg">>, "region"),
                     El(<<>>, "region"),
                     El(<<CdnOrigin, "/">>, "region"),
                     El(<<"/", "tts", "/", "9fra">>, "body") >>,
      anchors |-> 0, icons |-> 1 ]

PageNames == {"entry", "no_region", "no_title", "odd"}

PageOf(name) ==
    CASE name = "entry"     -> PageEntry
      [] name = "no_region" -> PageNoRegion
      [] name = "no_title"  -> PageNoTitle
      [] OTHER              -> PageOdd

\* how the render can fail (lines 117-127)
RenderFailures == {"launch_failure", "navigation_timeout", "network_error"}

\* how one requests.get can end (lines 54-63)
Outcomes == {"ok", "http_error", "network_error"}

(***************************************************************************)
(* State.                                                                  *)
(***************************************************************************)
VARIABLES
    button,   \* scrape_button's state: "normal" or "disabled"
    ui,       \* the event handler start_scrape_thread: where it stands and its locals
    task,     \* per worker thread: scrape_task and the locals of scrape_larousse
    fs,       \* the filesystem: directories and files
    stdout,   \* the last line printed, the [warn] lines of download_asset aside
    runs      \* how many runs have been started

vars == <<button, ui, task, fs, stdout, runs>>

Threads == 1..MaxThreads

IdleUi == [pc |-> "idle", url_or_word |-> <<>>, direction |-> "none"]

IdleTask ==
    [ pc |-> "idle", word_or_url |-> <<>>, direction |-> "none",
      raw_word |-> <<>>, word |-> <<>>, url |-> <<>>,
      html |-> "none", article |-> "none",
      links |-> <<>>, scripts |-> <<>>, audios |-> <<>>, anchors |-> 0,
      icons |-> <<>>, idx |-> 0,
      css_files_found |-> 0, js_files_found |-> 0, audio_files_found |-> 0,
      audio_links |-> <<>>,
      final_html |-> [written |-> FALSE, css |-> <<>>, js |-> <<>>, play |-> <<>>],
      result |-> "none", attempts |-> 0, fs0 |-> [dirs |-> {}, files |-> {}] ]

Init ==
    /\ button = "normal"
    /\ ui = IdleUi
    /\ task = [t \in Threads |-> IdleTask]
    /\ fs = [dirs |-> {<<>>}, files |-> {}]
    /\ stdout = "ready"
    /\ runs = 0


(***************************************************************************)
(* The driver: start_scrape_thread (lines 258-281).                        *)
(***************************************************************************)
Idle(t) == task[t].pc = "idle"

\* a driver that starts the worker without disabling its trigger
TriggerStateLeftEnabled == "normal"

\* the state scrape_button is given before the worker is made (line 267)
TriggerStateWhileRunning == "disabled"

\* the user activates the trigger.  Tk runs the command of a button only
\* while the button is enabled, and runs one handler at a time.  Lines
\* 260-267: an empty entry prints an error and returns; otherwise the button
\* is disabled
Click(input, direction, max_runs) ==
    /\ ui.pc = "idle"
    /\ button = "normal"
    /\ IF input = <<>>
       THEN /\ stdout' = "error_empty"
            /\ UNCHANGED <<button, ui, task, fs, runs>>
       ELSE /\ runs < max_runs
            /\ \E t \in Threads : Idle(t)
            /\ button' = TriggerStateWhileRunning
            /\ ui' = [pc |-> "spawn", url_or_word |-> input, direction |-> direction]
            /\ runs' = runs + 1
            /\ UNCHANGED <<task, fs, stdout>>

\* lines 279-281: the worker thread is made and started, the handler returns
StartThread ==
    /\ ui.pc = "spawn"
    /\ \E t \in Threads :
          /\ Idle(t)
          /\ \A u \in Threads : Idle(u) => t <= u
          /\ task' = [task EXCEPT ![t] =
                         [IdleTask EXCEPT !.pc = "start",
                                          !.word_or_url = ui.url_or_word,
                                          !.direction = ui.direction,
                                          !.fs0 = fs]]
    /\ ui' = IdleUi
    /\ UNCHANGED <<button, fs, stdout, runs>>

(***************************************************************************)
(* scrape_larousse (lines 90-238), one action per step of the worker.      *)
(***************************************************************************)
\* lines 96-103: the stem of a URL's path, or the input itself; "entry" when
\* that is empty
raw_word_of(word_or_url) ==
    Bind(IF StartsWithHttp(word_or_url)
         THEN PathStem(UrlPath(word_or_url)) ELSE word_or_url,
         LAMBDA raw : IF raw = <<>> THEN <<"entry">> ELSE raw)

\* line 106: the name used for the directory and the file
safe_name_of(word_or_url) == Unidecode(raw_word_of(word_or_url))

\* lines 96-115; an error of ensure_paths is raised to scrape_task
ScrapeStart(t) ==
    /\ task[t].pc = "start"
    /\ \E raw_word \in {raw_word_of(task[t].word_or_url)} :
       \E word \in {Unidecode(raw_word)} :
       \E made \in {ensure_paths(fs, word)} :
          /\ fs' = made.fs
          /\ task' = [task EXCEPT ![t] =
                [task[t] EXCEPT
                    !.raw_word = raw_word,
                    !.word = word,
                    !.url = build_url(task[t].word_or_url, task[t].direction),
                    !.pc = IF made.ok THEN "render" ELSE "except"]]
          /\ stdout' = IF made.ok THEN "info_saving_to" ELSE stdout
    /\ UNCHANGED <<button, ui, runs>>

\* lines 117-127: the page is rendered, or Playwright fails, which is printed
\* and ends the run.  url and direction are not read after line 122, and the
\* model forgets them here
Render(t, outcome) ==
    /\ task[t].pc = "render"
    /\ IF outcome \in RenderFailures
       THEN /\ task' = [task EXCEPT ![t].pc = "finally",
                                    ![t].result = "render_failed",
                                    ![t].url = <<>>, ![t].direction = "none"]
            /\ stdout' = "error_playwright"
       ELSE /\ task' = [task EXCEPT ![t].pc = "extract", ![t].html = outcome,
                                    ![t].url = <<>>, ![t].direction = "none"]
            /\ UNCHANGED stdout
    /\ UNCHANGED <<button, ui, fs, runs>>

\* lines 131-133: the first selector that matches
FindArticle(page) ==
    IF page.bilingue THEN "article_bilingue"
    ELSE IF page.content THEN "content fr-en"
    ELSE IF page.article THEN "article"
    ELSE "none"

\* a pipeline that goes on to the asset localizer without a content region
AfterExtract_NoEarlyReturn(article) == "css"

\* lines 135-137: without a content region the run ends here
AfterExtract(article) == IF article = "none" THEN "finally" ELSE "css"

\* an element of the parsed document: where it is, its source attribute
\* (src: the page's, local: the rewritten one), whether it is still in the
\* tree, whether its download succeeded
Parsed(els) ==
    [i \in 1..Len(els) |->
        [src |-> els[i].src, at |-> els[i].at, state |-> "orig",
         ok |-> FALSE, local |-> <<>>]]

\* article.find_all(...) sees the elements of the content region only
InRegion(els) == SelectSeq(els, LAMBDA e : e.at = "region")

\* lines 129-145: parse, find the content region, turn its <a> into <span>
Extract(t) ==
    /\ task[t].pc = "extract"
    /\ LET me      == task[t]
           page    == PageOf(me.html)
           article == FindArticle(page)
           next    == AfterExtract(article)
       IN  /\ task' = [task EXCEPT ![t] =
                 [me EXCEPT !.article = article,
                            !.links = Parsed(page.links),
                            !.scripts = Parsed(page.scripts),
                            !.audios = Parsed(InRegion(page.audios)),
                            !.icons = [i \in 1..page.icons |->
                                          [kind |-> "icon", href |-> <<>>]],
                            !.anchors = IF article = "none" THEN page.anchors ELSE 0,
                            !.idx = 0,
                            !.result = IF next = "finally" THEN "no_article" ELSE "none",
                            !.pc = next]]
           /\ stdout' = IF next = "finally" THEN "info_no_article"
                                              ELSE "info_downloading_css"
    /\ UNCHANGED <<button, ui, fs, runs>>

\* download_asset (lines 52-63): True, and the bytes written to out_path,
\* when the request answers 2xx and the write succeeds; every exception
\* gives False
download_ok(url, out_path, outcome, files) ==
    /\ outcome = "ok"
    /\ Head(url) # MalformedOrigin
    /\ WriteOk(files, out_path)

\* lines 157-160 and 170-173: the source is rewritten, or the element removed
Localized(el, ok, local_path, word) ==
    IF ok
    THEN [el EXCEPT !.state = "local", !.ok = TRUE,
                    !.local = relpath(local_path, word_dir_of(word))]
    ELSE [el EXCEPT !.state = "removed"]

\* lines 149-160: one turn of the stylesheet loop
CssStep(t, outcome) ==
    /\ task[t].pc = "css"
    /\ LET me == task[t]
           i  == me.idx + 1
       IN  IF i > Len(me.links)
           THEN /\ task' = [task EXCEPT ![t].pc = "js", ![t].idx = 0]
                /\ stdout' = "info_downloading_js"
                /\ UNCHANGED fs
           ELSE IF me.links[i].src = <<>>
           THEN /\ task' = [task EXCEPT ![t].idx = i]
                /\ UNCHANGED <<fs, stdout>>
           ELSE \E orig_href \in {absolute_url(me.links[i].src)} :
                \E local_path \in {get_local_path(orig_href, me.word, "css",
                                                   <<"style">>, me.idx)} :
                \E ok \in {download_ok(orig_href, local_path, outcome, fs)} :
                    /\ fs' = IF ok THEN WriteFile(fs, local_path) ELSE fs
                    /\ task' = [task EXCEPT ![t] =
                          [me EXCEPT !.links[i] = Localized(@, ok, local_path, me.word),
                                     !.css_files_found = IF ok THEN @ + 1 ELSE @,
                                     !.attempts = @ + 1,
                                     !.idx = i]]
                    /\ UNCHANGED stdout
    /\ UNCHANGED <<button, ui, runs>>

\* lines 162-173: one turn of the script loop
JsStep(t, outcome) ==
    /\ task[t].pc = "js"
    /\ LET me == task[t]
           i  == me.idx + 1
       IN  IF i > Len(me.scripts)
           THEN /\ task' = [task EXCEPT ![t].pc = "audio", ![t].idx = 0]
                /\ stdout' = "info_downloading_audio"
                /\ UNCHANGED fs
           ELSE IF me.scripts[i].src = <<>>
           THEN /\ task' = [task EXCEPT ![t].idx = i]
                /\ UNCHANGED <<fs, stdout>>
           ELSE \E orig_src \in {absolute_url(me.scripts[i].src)} :
                \E local_path \in {get_local_path(orig_src, me.word, "js",
                                                   <<"script">>, me.idx)} :
                \E ok \in {download_ok(orig_src, local_path, outcome, fs)} :
                    /\ fs' = IF ok THEN WriteFile(fs, local_path) ELSE fs
                    /\ task' = [task EXCEPT ![t] =
                          [me EXCEPT !.scripts[i] = Localized(@, ok, local_path, me.word),
                                     !.js_files_found = IF ok THEN @ + 1 ELSE @,
                                     !.attempts = @ + 1,
                                     !.idx = i]]
                    /\ UNCHANGED stdout
    /\ UNCHANGED <<button, ui, runs>>


\* lines 184-189: the <audio> element is removed whether or not its download
\* succeeded; a success is remembered in ok and local
AudioDone(el, ok, rel) ==
    [el EXCEPT !.state = "removed", !.ok = ok, !.local = IF ok THEN rel ELSE <<>>]

\* an audio loop that lists the path of every download, failed ones too
audio_links_after_Always(links, ok, rel) == Append(links, rel)

\* line 186: the list of playable paths after one audio download
audio_links_after(links, ok, rel) == IF ok THEN Append(links, rel) ELSE links

\* lines 175-189: one turn of the audio loop, over the <audio> elements of
\* the content region; article.find_all raises when there is no region
AudioStep(t, outcome) ==
    /\ task[t].pc = "audio"
    /\ LET me == task[t]
           i  == me.idx + 1
       IN  IF me.article = "none"
           THEN /\ task' = [task EXCEPT ![t].pc = "except"]
                /\ UNCHANGED <<fs, stdout>>
           ELSE IF i > Len(me.audios)
           THEN /\ task' = [task EXCEPT ![t].pc = "icons", ![t].idx = 0]
                /\ stdout' = "info_replacing_icons"
                /\ UNCHANGED fs
           ELSE IF me.audios[i].src = <<>>
           THEN /\ task' = [task EXCEPT ![t].idx = i]
                /\ UNCHANGED <<fs, stdout>>
           ELSE \E orig_src \in {absolute_url(me.audios[i].src)} :
                \E local_path \in {get_local_path(orig_src, me.word, "audio",
                                                   me.word, me.idx)} :
                \E ok \in {download_ok(orig_src, local_path, outcome, fs)} :
                \E rel \in {relpath(local_path, word_dir_of(me.word))} :
                    /\ fs' = IF ok THEN WriteFile(fs, local_path) ELSE fs
                    /\ task' = [task EXCEPT ![t] =
                          [me EXCEPT !.audios[i] = AudioDone(@, ok, rel),
                                     !.audio_files_found = IF ok THEN @ + 1 ELSE @,
                                     !.audio_links = audio_links_after(@, ok, rel),
                                     !.attempts = @ + 1,
                                     !.idx = i]]
                    /\ UNCHANGED stdout
    /\ UNCHANGED <<button, ui, runs>>

RECURSIVE ReplaceIcons(_, _, _)
\* lines 193-204: the speaker icons in document order; audio_index counts the
\* links made so far
ReplaceIcons(icons, audio_links, audio_index) ==
    IF icons = <<>> THEN <<>>
    ELSE IF audio_index < Len(audio_links)
         THEN << [kind |-> "link", href |-> audio_links[audio_index + 1]] >>
              \o ReplaceIcons(Tail(icons), audio_links, audio_index + 1)
         ELSE << [kind |-> "inert", href |-> <<>>] >>
              \o ReplaceIcons(Tail(icons), audio_links, audio_index)

\* lines 191-205
Icons(t) ==
    /\ task[t].pc = "icons"
    /\ task' = [task EXCEPT ![t].icons = ReplaceIcons(@, task[t].audio_links, 0),
                            ![t].pc = "assemble"]
    /\ UNCHANGED <<button, ui, fs, stdout, runs>>

\* an element still in the tree
Live(els) == SelectSeq(els, LAMBDA e : e.state # "removed")

\* line 215: every stylesheet link of the head, and those the content region
\* carries along when it is serialized (line 225)
SerializedLinks(links) == SelectSeq(Live(links), LAMBDA e : e.at \in {"head", "region"})

\* line 226: every script that has a source, wherever it stands
SerializedScripts(scripts) ==
    SelectSeq(Live(scripts), LAMBDA e : e.state = "local" \/ e.src # <<>>)

\* the play links among the replaced icons
PlayLinks(icons) == SelectSeq(icons, LAMBDA c : c.kind = "link")

\* line 231
out_html_of(word) == PathJoin(word_dir_of(word), word \o <<".", "html">>)

\* lines 208-238: soup.find("title").string raises when the page has no
\* <title>; write_text raises when the file cannot be made
Assemble(t) ==
    /\ task[t].pc = "assemble"
    /\ \E me \in {task[t]} :
       \E out_html \in {out_html_of(me.word)} :
           IF PageOf(me.html).title /\ WriteOk(fs, out_html)
           THEN /\ fs' = WriteFile(fs, out_html)
                /\ task' = [task EXCEPT ![t] =
                      [me EXCEPT !.final_html =
                                    [written |-> TRUE,
                                     css  |-> SerializedLinks(me.links),
                                     js   |-> SerializedScripts(me.scripts),
                                     play |-> PlayLinks(me.icons)],
                                 !.result = "done",
                                 !.pc = "finally"]]
                /\ stdout' = "done_saved"
           ELSE /\ task' = [task EXCEPT ![t].pc = "except"]
                /\ UNCHANGED <<fs, stdout>>
    /\ UNCHANGED <<button, ui, runs>>

(***************************************************************************)
(* scrape_task (lines 269-277).                                            *)
(***************************************************************************)
\* lines 274-275: an exception of scrape_larousse is printed
Except(t) ==
    /\ task[t].pc = "except"
    /\ task' = [task EXCEPT ![t].pc = "finally", ![t].result = "exception"]
    /\ stdout' = "error_unexpected"
    /\ UNCHANGED <<button, ui, fs, runs>>

\* a task that enables the button again only when no exception was caught
ButtonAfterRun_OnlyOnSuccess(result) ==
    IF result = "exception" THEN "disabled" ELSE "normal"

\* the state the finally clause gives the button (line 277)
ButtonAfterRun(result) == "normal"

\* lines 276-277: the button is enabled again and the thread ends
Finally(t) ==
    /\ task[t].pc = "finally"
    /\ button' = ButtonAfterRun(task[t].result)
    /\ task' = [task EXCEPT ![t] = IdleTask]
    /\ UNCHANGED <<ui, fs, stdout, runs>>

Worker(t, renders) ==
    \/ ScrapeStart(t)
    \/ \E outcome \in renders : Render(t, outcome)
    \/ Extract(t)
    \/ \E outcome \in Outcomes : CssStep(t, outcome)
    \/ \E outcome \in Outcomes : JsStep(t, outcome)
    \/ \E outcome \in Outcomes : AudioStep(t, outcome)
    \/ Icons(t)
    \/ Assemble(t)
    \/ Except(t)
    \/ Finally(t)

\* the program with its environment: what the user types, what the browser
\* renders, and how many runs the session has
Step(inputs, renders, max_runs) ==
    \/ \E input \in inputs, direction \in Directions :
          Click(input, direction, max_runs)
    \/ StartThread
    \/ \E t \in Threads : Worker(t, renders)

Renders == RenderFailures \cup PageNames

Next == Step(Inputs, Renders, MaxRuns)

Spec == Init /\ [][Next]_vars

\* the driver over several runs, with an environment that reaches every way a
\* run can end: saved, render failure, no content region, exception
DriverInputs == {InEmpty, InWord, InSlash}

DriverRenders == {"navigation_timeout", "no_region", "no_title", "odd"}

DriverNext == Step(DriverInputs, DriverRenders, MaxDriverRuns)

\* every network call has a timeout and every loop is over a finite list, so
\* a started worker keeps taking steps; the handler runs to its end
DriverSpec ==
    /\ Init
    /\ [][DriverNext]_vars
    /\ WF_vars(StartThread)
    /\ \A t \in Threads : WF_vars(Worker(t, DriverRenders))

(***************************************************************************)
(* Properties.                                                             *)
(***************************************************************************)
Ended(t) == task[t].pc = "finally"

Started(t) == task[t].pc \notin {"idle", "start"}

Alive == {t \in Threads : task[t].pc # "idle"}

HasPrefix(path, prefix) ==
    Len(path) >= Len(prefix) /\ SubSeq(path, 1, Len(prefix)) = prefix

\* rel is a relative path that stays below the directory of word and names a
\* file that exists
LocalFileExists(word, rel) ==
    /\ rel # <<>>
    /\ \A k \in 1..Len(rel) : rel[k] # DotDot
    /\ Norm(word_dir_of(word) \o rel) \in fs.files

\* the element's source was rewritten to an existing local file
RefIsLocal(word, el) ==
    el.state = "local" /\ el.ok /\ LocalFileExists(word, el.local)

\* C1: in a run that has written the HTML file, every stylesheet link, every
\* script with a source and every play link of the written document has a
\* relative local path to an existing file below the entry's directory; no
\* reference that failed or was never downloaded is in the document.
C1_WrittenRefsAreLocal ==
    \A t \in Threads :
        LET doc == task[t].final_html
        IN  doc.written =>
               /\ \A k \in 1..Len(doc.css) : RefIsLocal(task[t].word, doc.css[k])
               /\ \A k \in 1..Len(doc.js) : RefIsLocal(task[t].word, doc.js[k])
               /\ \A k \in 1..Len(doc.play) :
                      LocalFileExists(task[t].word, doc.play[k].href)

\* how many elements of els were localized
CountOk(els) == Len(SelectSeq(els, LAMBDA e : e.ok))

\* every element with a source was handled: localized or removed
AllHandled(els) ==
    \A k \in 1..Len(els) : els[k].src # <<>> => els[k].state \in {"local", "removed"}

\* C2: once a content region is found the run does not abort, whatever the
\* downloads do: it never raises, every reference is processed, a failure
\* leaves its kind's counter alone, and the run ends having written
\* <safeName>.html.
C2_RunWithRegionCompletes ==
    \A t \in Threads :
        task[t].article # "none" =>
           /\ task[t].pc # "except"
           /\ task[t].css_files_found = CountOk(task[t].links)
           /\ task[t].js_files_found = CountOk(task[t].scripts)
           /\ task[t].audio_files_found = CountOk(task[t].audios)
           /\ Ended(t) =>
                 /\ task[t].result = "done"
                 /\ task[t].final_html.written
                 /\ Norm(out_html_of(task[t].word)) \in fs.files
                 /\ AllHandled(task[t].links)
                 /\ AllHandled(task[t].scripts)
                 /\ AllHandled(task[t].audios)

\* C3: when the render fails the run reports it and returns without raising,
\* and the filesystem is what it was when the run started: no file and no
\* directory was made.
C3_RenderFailureWritesNothing ==
    \A t \in Threads :
        (Ended(t) /\ task[t].result = "render_failed") =>
           /\ stdout = "error_playwright"
           /\ fs = task[t].fs0

\* C4: a download is attempted only after a content region was found; a run
\* that finds none ends with no download attempted and no file written.
C4_NoRegionNoDownload ==
    \A t \in Threads :
        /\ task[t].attempts > 0 => task[t].article # "none"
        /\ task[t].pc \in {"css", "js", "audio", "icons", "assemble"}
              => task[t].article # "none"
        /\ task[t].result = "no_article" =>
              /\ task[t].article = "none"
              /\ task[t].attempts = 0
              /\ ~task[t].final_html.written
              /\ fs.files = task[t].fs0.files

\* a run on a page with stylesheets, scripts and audio but no content region
\* has ended
C4_Witness ==
    \E t \in Threads :
        /\ Ended(t)
        /\ task[t].result = "no_article"
        /\ task[t].html = "no_region"
        /\ Len(task[t].links) > 0

\* C5: at most one worker runs at any time; the trigger is disabled before
\* the worker is started and stays disabled while it runs; an activation
\* with an empty entry starts nothing and leaves the trigger enabled.
C5_OneRunAtATime ==
    /\ [](/\ Cardinality(Alive) <= 1
          /\ (Alive # {} \/ ui.pc = "spawn") => button = "disabled")
    /\ [][(\E t \in Threads : task[t].pc = "idle" /\ task'[t].pc # "idle")
             => button = "disabled" /\ button' = "disabled"]_vars
    /\ [][(stdout' = "error_empty" /\ stdout # "error_empty")
             => /\ button = "normal" /\ button' = "normal"
                /\ task' = task /\ ui' = ui /\ runs' = runs]_vars

\* the second run of a session is downloading while the trigger is disabled
C5_Witness ==
    \E t \in Threads :
        /\ task[t].pc = "audio"
        /\ task[t].attempts > 0
        /\ runs = 2
        /\ button = "disabled"

\* C6: every started run ends with the trigger enabled again, whatever its
\* outcome; an exception inside the pipeline is caught by scrape_task and
\* printed, and does not leave the trigger disabled.
C6_RunEndsReenabled ==
    /\ [](\A t \in Threads :
             (Ended(t) /\ task[t].result = "exception") => stdout = "error_unexpected")
    /\ \A t \in Threads :
          (task[t].pc # "idle") ~> (task[t].pc = "idle" /\ button = "normal")
    /\ (button = "disabled") ~> (button = "normal")

\* a run has ended by an exception and the trigger is still disabled
C6_Witness ==
    \E t \in Threads :
        /\ Ended(t)
        /\ task[t].result = "exception"
        /\ button = "disabled"

\* the characters a file name must not hold
UnsafeChunks == {"/", "\\", ":", "*", "?", "\"", "<", ">", "|"}

\* what the filesystem holds now and did not hold when the run of t started
MadeBy(t) == (fs.dirs \cup fs.files) \ (task[t].fs0.dirs \cup task[t].fs0.files)

\* C7: for every input the safeName holds no path separator and no other
\* unsafe character and is no "." or ".." segment, so everything the run
\* makes lies in <root>/<safeName>/ (or is a directory on the way to it).
C7_SafeNameStaysInRoot ==
    \A t \in Threads :
        Started(t) =>
           LET word == task[t].word
               home == Append(ROOT_DIR, word)
           IN  /\ \A k \in 1..Len(word) : word[k] \notin UnsafeChunks
               /\ word \notin {<<".">>, DotDot}
               /\ \A p \in MadeBy(t) : HasPrefix(p, home) \/ HasPrefix(home, p)

\* C8: for the URL .../dictionnaires/francais-anglais/chien/12345 the
\* displayName is the headword "chien" and the output goes to <root>/chien/.
C8_UrlGivesHeadword ==
    \A t \in Threads :
        (Started(t) /\ task[t].word_or_url = InUrl) =>
           /\ task[t].raw_word = <<"chien">>
           /\ Append(ROOT_DIR, <<"chien">>) \in fs.dirs

\* the local paths of the audio files that downloaded, in document order
GoodAudio(t) ==
    LET good == SelectSeq(task[t].audios, LAMBDA e : e.ok)
    IN  [k \in 1..Len(good) |-> good[k].local]

Min(a, b) == IF a <= b THEN a ELSE b

\* the icon loop has run
IconsReplaced(t) == task[t].pc = "assemble" \/ task[t].final_html.written

\* C9: after the icon loop the k-th speaker icon is a link to the k-th audio
\* file that downloaded, for every k up to the number of such files; every
\* further icon is an inert marker; the play links number
\* min(icons, audio successes).
C9_IconsMatchAudioInOrder ==
    \A t \in Threads :
        IconsReplaced(t) =>
           LET good  == GoodAudio(t)
               icons == task[t].icons
               m     == Min(Len(icons), Len(good))
           IN  /\ task[t].audio_files_found = Len(good)
               /\ \A k \in 1..Len(icons) :
                     IF k <= m
                     THEN icons[k] = [kind |-> "link", href |-> good[k]]
                     ELSE icons[k] = [kind |-> "inert", href |-> <<>>]
               /\ Len(PlayLinks(icons)) = m

\* the first audio failed, the second downloaded, and there are three icons
C9_Witness ==
    \E t \in Threads :
        /\ IconsReplaced(t)
        /\ Len(task[t].icons) = 3
        /\ Len(task[t].audios) = 2
        /\ ~task[t].audios[1].ok
        /\ task[t].audios[2].ok

\* get_local_path synthesized the name of this element
Synthesized(el) ==
    LET url == absolute_url(el.src)
    IN  Head(url) = MalformedOrigin \/ NeedsSynth(PathName(UrlPath(url)))

\* no two localized elements of els share a local file, two synthesized
\* names aside
DistinctLocals(els) ==
    \A i, j \in 1..Len(els) :
        (i < j /\ els[i].ok /\ els[j].ok) =>
           \/ els[i].local # els[j].local
           \/ (Synthesized(els[i]) /\ Synthesized(els[j]))

\* C10: within one run two different references of the same kind that both
\* download get different local paths, unless both names were synthesized.
C10_DistinctLocalFiles ==
    \A t \in Threads :
        /\ DistinctLocals(task[t].links)
        /\ DistinctLocals(task[t].scripts)
        /\ DistinctLocals(task[t].audios)

====
